---------------------------- MODULE Spec2Model ----------------------------
(***************************************************************************)
(* State-machine model of the Table component of obsidian-db-folder        *)
(* (src/src/components/Table.tsx): the React state it keeps, the handlers  *)
(* it hands to react-table and to the DOM, the timers it arms, and the     *)
(* stores (columns, rows, configuration) it reads and writes.              *)
(***************************************************************************)
EXTENDS Integers, Sequences, FiniteSets, TLC

VARIABLES
    columns,              \* tableStore.columns state.columns: ordered column ids
    columnWidth,          \* committed Column.width, per column id
    renderedColumns,      \* the column ids of the headers drawn by the last render
    needsRender,          \* a state or store update is waiting for a render pass
    mounted,              \* the view is open: the component is mounted
    lastRender,           \* history: the render pass of the last step, if any
    columnOrder,          \* React state columnOrder
    lastReorder,          \* history: the reorderColumn call of the last step, if any
    columnSizing,         \* React state columnSizing
    columnSizingInfo,     \* table.options.state.columnSizingInfo
    persistSizingTimeout, \* React state persistSizingTimeout (latest value set)
    closureTimeout,       \* persistSizingTimeout as captured by the last render
    closureSizing,        \* columnSizing as captured by the last render
    timers,               \* live setTimeout timers
    nextHandle,           \* the handle the next setTimeout returns
    sinceMove,            \* ticks since the last sizing-change event
    burst,                \* history: the current burst of sizing-change events
    failure,              \* an exception escaped a handler
    proposed,             \* history: per column, the proposed width not yet committed
    lateCommit,           \* history: alterColumnSize was called after the view closed
    rows,                 \* tableStore.data state.rows
    globalFilter,         \* React state globalFilter
    lastFilter,           \* history: the filter text the last keystroke replaced
    columnVisibility,     \* React state columnVisibility
    pageIndex,            \* react-table pagination state pageIndex
    inputNewRow,          \* React state inputNewRow
    newRowRefValue,       \* newRowRef.current.value, the DOM input's text
    lastInput,            \* history: the last event of the new-row input
    sortBy,               \* tableStore.sorting sortBy
    templateRow,          \* tableStore.rowTemplate template
    currentRowTemplate,   \* ddbbConfig.current_row_template
    lastSelect            \* history: the last template selection

vars == << columns, columnWidth, renderedColumns, needsRender, mounted, lastRender,
           columnOrder, lastReorder, columnSizing, columnSizingInfo,
           persistSizingTimeout, closureTimeout, closureSizing, timers, nextHandle,
           sinceMove, burst, failure, proposed, lateCommit,
           rows, globalFilter, lastFilter, columnVisibility, pageIndex, inputNewRow,
           newRowRefValue, lastInput, sortBy, templateRow, currentRowTemplate,
           lastSelect >>

viewVars == << rows, globalFilter, lastFilter, columnVisibility, pageIndex, inputNewRow,
               newRowRefValue, lastInput, sortBy, templateRow, currentRowTemplate,
               lastSelect >>

-----------------------------------------------------------------------------
(* Bounds of the model *)

MaxColumns == 3
MaxHandles == 3
MaxRows == 5

-----------------------------------------------------------------------------
(* JavaScript values and array primitives *)

Undefined == "undefined"

ColumnIds == {"a", "b", "c", "d"}

Min(x, y) == IF x < y THEN x ELSE y
Max(x, y) == IF x > y THEN x ELSE y

Elems(s) == {s[i] : i \in 1..Len(s)}

NoDup(s) == \A i, j \in 1..Len(s) : s[i] = s[j] => i = j

\* Array.prototype.indexOf: the 0-based index of the first occurrence, or -1
IndexOf(s, x) ==
    IF x \in Elems(s)
    THEN (CHOOSE i \in 1..Len(s) : s[i] = x /\ \A j \in 1..(i - 1) : s[j] # x) - 1
    ELSE -1

\* The start index of Array.prototype.splice: a negative start counts from the
\* end, and the result is kept within [0, length].
SpliceStart(s, start) ==
    IF start < 0 THEN Max(Len(s) + start, 0) ELSE Min(start, Len(s))

\* The elements splice(start, count) removes
SpliceRemoved(s, start, count) ==
    LET from == SpliceStart(s, start)
        n == Min(Max(count, 0), Len(s) - from)
    IN SubSeq(s, from + 1, from + n)

\* The array after splice(start, count, ...items)
SpliceResult(s, start, count, items) ==
    LET from == SpliceStart(s, start)
        n == Min(Max(count, 0), Len(s) - from)
    IN SubSeq(s, 1, from) \o items \o SubSeq(s, from + n + 1, Len(s))

\* array[0]: undefined on an empty array
First(s) == IF Len(s) = 0 THEN Undefined ELSE s[1]

-----------------------------------------------------------------------------
(* Column order: reorderColumn *)

\* A reorder that inserts the dragged id without removing it first
reorderColumnNoRemove(draggedColumnId, targetColumnId, order) ==
    SpliceResult(order, IndexOf(order, targetColumnId), 0, << draggedColumnId >>)

\* A reorder that looks the target up after the dragged id was removed
reorderColumnLateIndex(draggedColumnId, targetColumnId, order) ==
    LET removed == SpliceRemoved(order, IndexOf(order, draggedColumnId), 1)
        rest == SpliceResult(order, IndexOf(order, draggedColumnId), 1, << >>)
    IN SpliceResult(rest, IndexOf(rest, targetColumnId), 0, << First(removed) >>)

\* The arguments of the outer splice are evaluated left to right: the target's
\* index is taken in the array as passed, then the inner splice removes the
\* dragged id, then the outer splice inserts what was removed at that index.
reorderColumn(draggedColumnId, targetColumnId, order) ==
    LET targetIndex == IndexOf(order, targetColumnId)
        draggedIndex == IndexOf(order, draggedColumnId)
        removed == SpliceRemoved(order, draggedIndex, 1)
        rest == SpliceResult(order, draggedIndex, 1, << >>)
    IN SpliceResult(rest, targetIndex, 0, << First(removed) >>)

-----------------------------------------------------------------------------
(* Column widths: the resize handler, its timers and the debounced commit *)

\* defaultColumn.minSize and defaultColumn.maxSize, in the model's width unit
MinWidth == 2
MaxWidth == 4

\* The width every column has at session start
InitialWidth == 3

\* The delay of the commit timer (1500 ms), in clock ticks of 500 ms
Debounce == 3

\* The cumulative pointer offsets a sizing-change event can carry
Deltas == {-2, 2}

\* columnSizingInfo.isResizingColumn when no column is being resized
NotResizing == "false"

\* persistSizingTimeout before any timer was armed
NoTimeout == 0

\* No proposed width is waiting for its commit
NoWidth == -100

IdleSizingInfo ==
    [isResizingColumn |-> NotResizing, deltaOffset |-> 0, columnSizingStart |-> << >>]

Clamp(w) == Min(Max(w, MinWidth), MaxWidth)

\* column.getSize() of react-table: the sizing entry kept within the column's
\* minSize and maxSize
getSize(sizing, c) == Clamp(sizing[c])

\* A commit that stores the proposed width as it is
alterColumnSizeNoClamp(widths, cols, id, w) ==
    IF id \in Elems(cols) THEN [widths EXCEPT ![id] = w] ELSE widths

\* columnActions.alterColumnSize (commitWidth): the width is clamped to
\* [minWidth, maxWidth] and written to the column; an unknown id is a no-op
alterColumnSize(widths, cols, id, w) ==
    IF id \in Elems(cols) THEN [widths EXCEPT ![id] = Clamp(w)] ELSE widths

\* Array.prototype.find over columnSizingStart: whether an entry of the column
\* being resized exists (find returns undefined when none does) ...
StartHits(info) ==
    {i \in 1..Len(info.columnSizingStart) :
        info.columnSizingStart[i][1] = info.isResizingColumn}

FindsStart(info) == StartHits(info) # {}

\* ... and the first such entry, [id, size]
FindStart(info) ==
    info.columnSizingStart[CHOOSE i \in StartHits(info) :
                              \A j \in StartHits(info) : i <= j]

\* An updater that forgets the sizes it was given: old => newColumnSizing
MergeSizingNewOnly(old, new) ==
    [c \in ColumnIds |-> IF c \in DOMAIN new THEN new[c] ELSE InitialWidth]

\* The updater react-table passes: old => ({...old, ...newColumnSizing})
MergeSizing(old, new) ==
    [c \in ColumnIds |-> IF c \in DOMAIN new THEN new[c] ELSE old[c]]

\* clearTimeout(handle): the timer of that handle, if still live, is dropped
clearTimeout(ts, handle) == {t \in ts : t.handle # handle}

\* The timers after the handler ran: the timeout the closure holds is cleared
\* when truthy, and a new one is armed for the commit
ArmedTimers(ts, seen, handle, id, w) ==
    (IF seen # NoTimeout THEN clearTimeout(ts, seen) ELSE ts)
        \cup {[handle |-> handle, col |-> id, width |-> w, remaining |-> Debounce]}

\* onColumnSizingChange(updater), with info the columnSizingInfo the handler
\* reads and new the entries the updater merges into the sizing it is given
onColumnSizingChange(info, new) ==
    LET list == MergeSizing(closureSizing, new)
    IN IF ~FindsStart(info)
       THEN \* columnToUpdate[0] throws a TypeError: nothing after it runs
            /\ failure' = TRUE
            /\ UNCHANGED << columnSizing, persistSizingTimeout, timers, nextHandle,
                            needsRender >>
       ELSE LET columnToUpdate == FindStart(info)
                id == columnToUpdate[1]
                w == columnToUpdate[2] + info.deltaOffset
            IN /\ timers' = ArmedTimers(timers, closureTimeout, nextHandle, id, w)
               /\ persistSizingTimeout' = nextHandle
               /\ nextHandle' = nextHandle + 1
               /\ columnSizing' = [list EXCEPT ![id] = w]
               /\ needsRender' = TRUE
               /\ UNCHANGED failure

NoTimerDue == \A t \in timers : t.remaining > 0

NoBurst == [n |-> 0, col |-> NotResizing, width |-> 0, commits |-> 0,
            committed |-> 0, early |-> FALSE, mixed |-> FALSE]

\* The burst after a sizing-change event on column id proposing width w
BurstAfterEvent(id, w) ==
    IF burst.n = 0 \/ sinceMove >= Debounce
    THEN [NoBurst EXCEPT !.n = 1, !.col = id, !.width = w]
    ELSE [burst EXCEPT !.n = Min(burst.n + 1, MaxHandles + 1), !.width = w,
                       !.mixed = burst.mixed \/ id # burst.col]

\* Pointer-down on the resize handle of a drawn column: react-table records the
\* column and its current size in columnSizingInfo
StartResize(c) ==
    /\ mounted
    /\ ~needsRender
    /\ columnSizingInfo.isResizingColumn = NotResizing
    /\ c \in Elems(renderedColumns)
    /\ columnSizingInfo' = [isResizingColumn |-> c, deltaOffset |-> 0,
                            columnSizingStart |-> << << c, getSize(closureSizing, c) >> >>]
    /\ UNCHANGED << columns, columnWidth, renderedColumns, needsRender, columnOrder,
                    lastReorder, columnSizing, persistSizingTimeout, closureTimeout,
                    closureSizing, timers, nextHandle, sinceMove, burst, failure >>
    /\ UNCHANGED << mounted, lastRender, proposed, lateCommit >>
    /\ UNCHANGED viewVars

\* The sizing-change event react-table raises for a pointer position: it stores
\* the cumulative offset and calls onColumnSizingChange
SizingEvent(delta, ends) ==
    LET info == [columnSizingInfo EXCEPT !.deltaOffset = delta]
        new == [c \in {info.columnSizingStart[i][1] :
                          i \in 1..Len(info.columnSizingStart)} |->
                  LET i == CHOOSE i \in 1..Len(info.columnSizingStart) :
                                  info.columnSizingStart[i][1] = c
                  IN info.columnSizingStart[i][2] + delta]
    IN /\ mounted
       /\ nextHandle <= MaxHandles
       /\ NoTimerDue
       /\ onColumnSizingChange(info, new)
       /\ columnSizingInfo' = IF ends THEN IdleSizingInfo ELSE info
       /\ sinceMove' = 0
       /\ burst' = IF ~FindsStart(info) THEN burst
                   ELSE BurstAfterEvent(FindStart(info)[1], FindStart(info)[2] + delta)
       /\ proposed' = IF ~FindsStart(info) THEN proposed
                      ELSE [proposed EXCEPT ![FindStart(info)[1]] =
                                                FindStart(info)[2] + delta]
       /\ UNCHANGED << columns, columnWidth, renderedColumns, columnOrder,
                       lastReorder, closureTimeout, closureSizing >>
       /\ UNCHANGED << mounted, lastRender, lateCommit >>
       /\ UNCHANGED viewVars

\* Pointer-move while a column is being resized
PointerMove(delta) ==
    /\ columnSizingInfo.isResizingColumn # NotResizing
    /\ SizingEvent(delta, FALSE)

\* Pointer-up: react-table raises a last sizing change, then resets
\* columnSizingInfo
PointerUp(delta) ==
    /\ columnSizingInfo.isResizingColumn # NotResizing
    /\ SizingEvent(delta, TRUE)

\* A sizing change raised while no column is being resized, as
\* table.resetColumnSizing() raises it: the updater is the new sizing itself
resetColumnSizing ==
    /\ mounted
    /\ ~needsRender
    /\ columnSizingInfo.isResizingColumn = NotResizing
    /\ onColumnSizingChange(columnSizingInfo, << >>)
    /\ UNCHANGED << columns, columnWidth, renderedColumns, columnOrder, lastReorder,
                    columnSizingInfo, closureTimeout, closureSizing, sinceMove, burst >>
    /\ UNCHANGED << mounted, lastRender, proposed, lateCommit >>
    /\ UNCHANGED viewVars

\* The view is closed: the component unmounts. It registers no cleanup, so
\* the timers it armed stay armed; nothing renders any more
Unmount ==
    /\ mounted
    /\ mounted' = FALSE
    /\ needsRender' = FALSE
    /\ UNCHANGED << columns, columnWidth, renderedColumns, columnOrder, lastReorder,
                    columnSizing, columnSizingInfo, persistSizingTimeout,
                    closureTimeout, closureSizing, timers, nextHandle, sinceMove,
                    burst, failure, lastRender, proposed, lateCommit >>
    /\ UNCHANGED viewVars

\* 500 ms pass; a timer that is due fires, and a render pass that is waiting
\* runs, before more time passes
Tick ==
    /\ NoTimerDue
    /\ ~needsRender
    /\ timers # {} \/ (burst.n > 0 /\ sinceMove < Debounce)
    /\ timers' = {[t EXCEPT !.remaining = t.remaining - 1] : t \in timers}
    /\ sinceMove' = Min(sinceMove + 1, Debounce)
    /\ UNCHANGED << columns, columnWidth, renderedColumns, needsRender, columnOrder,
                    lastReorder, columnSizing, columnSizingInfo, persistSizingTimeout,
                    closureTimeout, closureSizing, nextHandle, burst, failure >>
    /\ UNCHANGED << mounted, lastRender, proposed, lateCommit >>
    /\ UNCHANGED viewVars

\* The callback of a due timer runs: the width it captured is committed
TimerFires(t) ==
    /\ t \in timers
    /\ t.remaining = 0
    /\ timers' = timers \ {t}
    /\ columnWidth' = alterColumnSize(columnWidth, columns, t.col, t.width)
    /\ needsRender' = mounted
    /\ proposed' = IF proposed[t.col] = t.width
                   THEN [proposed EXCEPT ![t.col] = NoWidth] ELSE proposed
    /\ lateCommit' = (lateCommit \/ ~mounted)
    /\ UNCHANGED << mounted, lastRender >>
    /\ burst' = IF t.col = burst.col
                THEN [burst EXCEPT !.commits = Min(burst.commits + 1, MaxHandles + 1),
                                   !.committed = t.width,
                                   !.early = burst.early \/ sinceMove < Debounce]
                ELSE burst
    /\ UNCHANGED << columns, renderedColumns, columnOrder, lastReorder, columnSizing,
                    columnSizingInfo, persistSizingTimeout, closureTimeout,
                    closureSizing, nextHandle, sinceMove, failure >>
    /\ UNCHANGED viewVars

-----------------------------------------------------------------------------
(* Strings: a string is a sequence of one-character strings *)

EmptyString == << >>

\* String.prototype.toLowerCase, one character
LowerChar(ch) ==
    CASE ch = "A" -> "a"
      [] ch = "B" -> "b"
      [] OTHER -> ch

toLowerCase(str) == [i \in 1..Len(str) |-> LowerChar(str[i])]

\* String.prototype.includes
includes(str, part) ==
    \E i \in 0..(Len(str) - Len(part)) :
        \A j \in 1..Len(part) : str[i + j] = part[j]

\* Whether a string holds nothing but spaces
Blank(str) == \A i \in 1..Len(str) : str[i] = " "

Digit(n) ==
    CASE n = 0 -> "0" [] n = 1 -> "1" [] n = 2 -> "2" [] n = 3 -> "3" [] n = 4 -> "4"
      [] n = 5 -> "5" [] n = 6 -> "6" [] n = 7 -> "7" [] n = 8 -> "8" [] n = 9 -> "9"

\* Number.prototype.toString for 0..99
NumberToString(n) ==
    IF n < 10 THEN << Digit(n) >> ELSE << Digit(n \div 10), Digit(n % 10) >>

-----------------------------------------------------------------------------
(* Rows, the global filter and pagination *)

MissingCell == [kind |-> "missing", text |-> EmptyString, num |-> 0]
TextCell(t) == [kind |-> "text", text |-> t, num |-> 0]
NumberCell(n) == [kind |-> "number", text |-> EmptyString, num |-> n]

\* The stringified value of a cell; a missing value renders as empty
Stringify(cell) ==
    CASE cell.kind = "text" -> cell.text
      [] cell.kind = "number" -> NumberToString(cell.num)
      [] OTHER -> EmptyString

NoFields == [c \in ColumnIds |-> MissingCell]

\* Rows the data source can hand over at session start
RowPool ==
    { [id |-> << "r", "1" >>,
       fields |-> [NoFields EXCEPT !["a"] = TextCell(<< "A", "b" >>)]],
      [id |-> << "r", "2" >>,
       fields |-> [NoFields EXCEPT !["a"] = TextCell(<< "b" >>),
                                   !["b"] = TextCell(<< "A" >>)]],
      [id |-> << "r", "3" >>,
       fields |-> [NoFields EXCEPT !["a"] = NumberCell(12),
                                   !["b"] = TextCell(<< "a", "B" >>)]],
      [id |-> << "r", "4" >>, fields |-> NoFields] }

\* Texts typed into the filter box
FilterTexts == {EmptyString, << "a" >>, << "B" >>, << "a", "B" >>, << "1" >>}

\* Texts typed into the new-row input
InputTexts == {EmptyString, << " " >>, << " ", " " >>, << "x" >>, << "x", " " >>}

\* Keys pressed in the new-row input
Keys == {"Enter", "x", "Escape"}

\* A filter that consults the visible columns only
getColumnCanGlobalFilterVisible(column) == columnVisibility[column]

\* getColumnCanGlobalFilter: (column) => true
getColumnCanGlobalFilter(column) == TRUE

\* globalDatabaseFilterFn: the cell of the column, stringified, contains the
\* filter text, case-insensitively
globalFilterFn(row, columnId, filterValue) ==
    includes(toLowerCase(Stringify(row.fields[columnId])), toLowerCase(filterValue))

\* getFilteredRowModel of react-table under the options of this table: without
\* a filter text the rows pass as they are; with one, a row passes when the
\* filter function accepts one of the columns that can be filtered globally
getFilteredRowModel(rs, filter) ==
    LET Passes(row) ==
            \E c \in Elems(columns) :
                getColumnCanGlobalFilter(c) /\ globalFilterFn(row, c, filter)
    IN IF filter = EmptyString THEN rs ELSE SelectSeq(rs, Passes)

FilteredRows == getFilteredRowModel(rows, globalFilter)

\* The code unit of a character, as far as the characters in use go
CharCode(ch) ==
    CASE ch = " " -> 32
      [] ch = "0" -> 48 [] ch = "1" -> 49 [] ch = "2" -> 50 [] ch = "3" -> 51
      [] ch = "4" -> 52 [] ch = "5" -> 53 [] ch = "6" -> 54 [] ch = "7" -> 55
      [] ch = "8" -> 56 [] ch = "9" -> 57
      [] ch = "A" -> 65 [] ch = "B" -> 66
      [] ch = "a" -> 97 [] ch = "b" -> 98
      [] ch = "r" -> 114 [] ch = "x" -> 120

IsDigit(ch) == CharCode(ch) >= 48 /\ CharCode(ch) <= 57

\* The comparison of two strings by < and >: -1, 0 or 1
RECURSIVE CompareStrings(_, _)
CompareStrings(a, b) ==
    IF a = << >> \/ b = << >>
    THEN (IF a = b THEN 0 ELSE IF a = << >> THEN -1 ELSE 1)
    ELSE IF CharCode(Head(a)) < CharCode(Head(b)) THEN -1
    ELSE IF CharCode(Head(a)) > CharCode(Head(b)) THEN 1
    ELSE CompareStrings(Tail(a), Tail(b))

\* str.split(/([0-9]+)/gm).filter(Boolean): the runs of digits and of
\* other characters, in order
RECURSIVE Chunks(_)
Chunks(str) ==
    IF str = << >> THEN << >>
    ELSE LET rest == Chunks(Tail(str))
         IN IF rest # << >> /\ IsDigit(Head(str)) = IsDigit(rest[1][1])
            THEN << << Head(str) >> \o rest[1] >> \o Tail(rest)
            ELSE << << Head(str) >> >> \o rest

\* parseInt(chunk, 10) of a run of digits
RECURSIVE parseInt(_)
parseInt(chunk) ==
    IF chunk = << >> THEN 0
    ELSE parseInt(SubSeq(chunk, 1, Len(chunk) - 1)) * 10
             + (CharCode(chunk[Len(chunk)]) - 48)

\* A run of other characters parses to NaN
IsNaN(chunk) == ~IsDigit(chunk[1])

\* compareAlphanumeric of react-table, on the chunks of the two strings
RECURSIVE compareAlphanumeric(_, _)
compareAlphanumeric(a, b) ==
    IF a = << >> \/ b = << >> THEN Len(a) - Len(b)
    ELSE LET aa == Head(a)
             bb == Head(b)
         IN IF IsNaN(aa) /\ IsNaN(bb)
            THEN \* both are strings
                 (IF CompareStrings(aa, bb) # 0 THEN CompareStrings(aa, bb)
                  ELSE compareAlphanumeric(Tail(a), Tail(b)))
            ELSE IF IsNaN(aa) \/ IsNaN(bb)
            THEN \* one is a string, one is a number
                 (IF IsNaN(aa) THEN -1 ELSE 1)
            ELSE \* both are numbers
                 IF parseInt(aa) > parseInt(bb) THEN 1
                 ELSE IF parseInt(bb) > parseInt(aa) THEN -1
                 ELSE compareAlphanumeric(Tail(a), Tail(b))

\* sortingFn: "alphanumeric": the two cells of the column, stringified and
\* lower-cased, compared chunk by chunk
alphanumeric(rowA, rowB, columnId) ==
    compareAlphanumeric(Chunks(toLowerCase(Stringify(rowA.fields[columnId]))),
                        Chunks(toLowerCase(Stringify(rowB.fields[columnId]))))

\* sortUndefined: 1, the default of a column: an undefined value sorts after a
\* defined one
SortUndefined(rowA, rowB, columnId) ==
    LET aUndefined == rowA.fields[columnId].kind = "missing"
        bUndefined == rowB.fields[columnId].kind = "missing"
    IN IF aUndefined = bUndefined THEN 0 ELSE IF aUndefined THEN 1 ELSE -1

\* The comparison under one entry of the sorting state
CompareEntry(rowA, rowB, entry) ==
    LET sortInt == IF SortUndefined(rowA, rowB, entry.id) # 0
                   THEN SortUndefined(rowA, rowB, entry.id)
                   ELSE alphanumeric(rowA, rowB, entry.id)
    IN IF entry.desc THEN -sortInt ELSE sortInt

\* A tie decided for the row that came later
IndexOrderReversed(i, j) == j - i

\* return rowA.index - rowB.index: a tie under every entry is decided by the
\* positions the rows had
IndexOrder(i, j) == i - j

\* The comparator of getSortedRowModel: the first entry of the sorting state
\* that tells the rows apart decides
RECURSIVE CompareRows(_, _, _, _, _)
CompareRows(rs, i, j, sorting, k) ==
    IF k > Len(sorting) THEN IndexOrder(i, j)
    ELSE IF CompareEntry(rs[i], rs[j], sorting[k]) # 0
    THEN CompareEntry(rs[i], rs[j], sorting[k])
    ELSE CompareRows(rs, i, j, sorting, k + 1)

\* Array.prototype.sort under that comparator, on the positions of the rows:
\* position n is put before the first position that compares greater
RECURSIVE SortedPositions(_, _, _)
SortedPositions(rs, sorting, n) ==
    IF n = 0 THEN << >>
    ELSE LET sorted == SortedPositions(rs, sorting, n - 1)
             greater == {k \in 1..Len(sorted) :
                            CompareRows(rs, n, sorted[k], sorting, 1) < 0}
             at == IF greater = {} THEN Len(sorted) + 1
                   ELSE CHOOSE k \in greater : \A m \in greater : k <= m
         IN SubSeq(sorted, 1, at - 1) \o << n >> \o SubSeq(sorted, at, Len(sorted))

\* The entries of the sorting state whose column exists
availableSorting(sorting) ==
    LET Exists(entry) == entry.id \in Elems(columns)
    IN SelectSeq(sorting, Exists)

\* getSortedRowModel of react-table: without rows or without a sorting state
\* the rows pass as they are
getSortedRowModel(rs, sorting) ==
    IF rs = << >> \/ sorting = << >> THEN rs
    ELSE LET order == SortedPositions(rs, availableSorting(sorting), Len(rs))
         IN [k \in 1..Len(rs) |-> rs[order[k]]]

SortedRows == getSortedRowModel(FilteredRows, sortBy)

\* The page size of the pagination state
PageSize == 2

\* getPageCount: the pages the filtered rows fill
PageCount(n) == (n + PageSize - 1) \div PageSize

\* getPaginationRowModel: the slice of the page index, taken as it is
getPaginationRowModel(rs, index) ==
    SubSeq(rs, Min(PageSize * index, Len(rs)) + 1,
               Min(PageSize * index + PageSize, Len(rs)))

PageRows == getPaginationRowModel(SortedRows, pageIndex)

\* A hit count taken from the rows of the current page
hitsOfPage == Len(PageRows)

\* globalFilterRows.hits, as handed to the navigation bar:
\* table.getFilteredRowModel().rows.length
hits == Len(FilteredRows)

NoInput == [event |-> "none", key |-> "", text |-> EmptyString, rowsBefore |-> 0,
            rowsAfter |-> 0, addRowCalled |-> FALSE]

\* An addRow that creates a row whatever the name
addRowAnyName(rs, name) ==
    Append(rs, [id |-> name, fields |-> NoFields])

\* dataActions.addRow: no row is created for an empty or blank name; otherwise a
\* row named after it is appended
addRow(rs, name) ==
    IF Blank(name) THEN rs ELSE Append(rs, [id |-> name, fields |-> NoFields])

-----------------------------------------------------------------------------
(* Initial states *)

\* The rows the data source hands over in the filter specification
MaxInitRows == 3

NoFilterYet == [typed |-> FALSE, text |-> EmptyString]

NoRender == [ran |-> FALSE, drift |-> FALSE, follows |-> FALSE, before |-> << >>]

\* No template is selected
NoTemplate == EmptyString

NoSelect == [done |-> FALSE, cleared |-> FALSE, value |-> EmptyString,
             previous |-> EmptyString, rowsBefore |-> << >>, rowsAfter |-> << >>]

NoReorder == [called |-> FALSE, dragged |-> Undefined, target |-> Undefined,
              before |-> << >>, after |-> << >>]

SeqsUpTo(S, n) == UNION {[1..k -> S] : k \in 0..n}

\* Session start: the React state is built from the stores' content
InitWith(cols, rs, vis) ==
    /\ columns = cols
    /\ columnWidth = [c \in ColumnIds |-> InitialWidth]
    /\ renderedColumns = cols
    /\ needsRender = FALSE
    /\ mounted = TRUE
    /\ lastRender = NoRender
    /\ columnOrder = cols
    /\ lastReorder = NoReorder
    /\ columnSizing = [c \in ColumnIds |-> InitialWidth]
    /\ columnSizingInfo = IdleSizingInfo
    /\ persistSizingTimeout = NoTimeout
    /\ closureTimeout = NoTimeout
    /\ closureSizing = [c \in ColumnIds |-> InitialWidth]
    /\ timers = {}
    /\ nextHandle = 1
    /\ sinceMove = Debounce
    /\ burst = NoBurst
    /\ failure = FALSE
    /\ proposed = [c \in ColumnIds |-> NoWidth]
    /\ lateCommit = FALSE
    /\ rows = rs
    /\ globalFilter = EmptyString
    /\ lastFilter = NoFilterYet
    /\ columnVisibility = vis
    /\ pageIndex = 0
    /\ inputNewRow = EmptyString
    /\ newRowRefValue = EmptyString
    /\ lastInput = NoInput
    /\ sortBy = << >>
    /\ templateRow = NoTemplate
    /\ currentRowTemplate = NoTemplate
    /\ lastSelect = NoSelect

AllVisible == [c \in ColumnIds |-> TRUE]

TwoColumns == << "a", "b" >>

InitOrder ==
    \E cols \in {s \in SeqsUpTo(ColumnIds, MaxColumns) : NoDup(s)} :
        InitWith(cols, << >>, AllVisible)

InitResize == InitWith(TwoColumns, << >>, AllVisible)

InitFilter ==
    \E rs \in SeqsUpTo(RowPool, MaxInitRows) :
        \E vis \in [ColumnIds -> BOOLEAN] :
            /\ \A c \in ColumnIds \ Elems(TwoColumns) : vis[c]
            /\ InitWith(TwoColumns, rs, vis)

\* Rows for the sorting specification: the pool, and a row whose cells differ
\* from another row's in letter case only
SortPool ==
    RowPool \cup
    { [id |-> << "r", "5" >>,
       fields |-> [NoFields EXCEPT !["a"] = TextCell(<< "B" >>),
                                   !["b"] = TextCell(<< "a" >>)]] }

InitSort ==
    \E rs \in SeqsUpTo(SortPool, MaxInitRows) : InitWith(TwoColumns, rs, AllVisible)

InitTemplate ==
    \E rs \in SeqsUpTo(RowPool, MaxInitRows) : InitWith(TwoColumns, rs, AllVisible)

\* The rows of a session that starts with n rows
StartRows(n) == [i \in 1..n |-> [id |-> << "r", Digit(i) >>, fields |-> NoFields]]

InitRows ==
    \E n \in 0..MaxRows : InitWith(TwoColumns, StartRows(n), AllVisible)

-----------------------------------------------------------------------------
(* The render pass *)

\* A reconciliation that only refills a column order that is too short
NivelingShortOnly(order, cols) ==
    IF Len(order) < Len(cols) THEN cols ELSE order

\* A reconciliation that appends the registry's ids to the cached order
NivelingAppend(order, cols) ==
    IF Len(order) # Len(cols) THEN order \o cols ELSE order

\* A reconciliation that compares the ids rather than the lengths
NivelingByIds(order, cols) ==
    IF Elems(order) # Elems(cols) THEN cols ELSE order

\* Niveling number of columns: a cached order whose length differs from the
\* column count is replaced by the ids of the registry's columns
Niveling(order, cols) ==
    IF Len(order) # Len(cols) THEN cols ELSE order

\* One pass of Table(): the closures of the handlers capture the state as it is,
\* and a cached column order whose length differs from the column count is
\* replaced by the registry's ids, which asks for another pass
Render ==
    /\ mounted
    /\ needsRender
    /\ renderedColumns' = columns
    /\ closureTimeout' = persistSizingTimeout
    /\ closureSizing' = columnSizing
    /\ columnOrder' = Niveling(columnOrder, columns)
    /\ needsRender' = (Len(columnOrder) # Len(columns))
    /\ lastRender' = [ran |-> TRUE, drift |-> Len(columnOrder) # Len(columns),
                      follows |-> lastRender.ran /\ lastRender.drift,
                      before |-> columnOrder]
    /\ lastReorder' = NoReorder
    /\ UNCHANGED << mounted, proposed, lateCommit >>
    /\ UNCHANGED << columns, columnWidth, columnSizing, columnSizingInfo,
                    persistSizingTimeout, timers, nextHandle, sinceMove, burst,
                    failure >>
    /\ UNCHANGED viewVars

-----------------------------------------------------------------------------
(* Column registry changes and the drop of a dragged header *)

\* addColumn: the definition is appended at the end of the display order
AddColumn(id) ==
    /\ id \notin Elems(columns)
    /\ Len(columns) < MaxColumns
    /\ columns' = Append(columns, id)
    /\ needsRender' = TRUE
    /\ lastReorder' = NoReorder
    /\ lastRender' = NoRender
    /\ UNCHANGED << columnWidth, renderedColumns, columnOrder >>
    /\ UNCHANGED << mounted, proposed, lateCommit >>
    /\ UNCHANGED << columnSizing, columnSizingInfo, persistSizingTimeout,
                    closureTimeout, closureSizing, timers, nextHandle, sinceMove,
                    burst, failure >>
    /\ UNCHANGED viewVars

\* A column is removed from the registry
RemoveColumn(id) ==
    /\ id \in Elems(columns)
    /\ columns' = SelectSeq(columns, LAMBDA c : c # id)
    /\ needsRender' = TRUE
    /\ lastReorder' = NoReorder
    /\ lastRender' = NoRender
    /\ UNCHANGED << columnWidth, renderedColumns, columnOrder >>
    /\ UNCHANGED << mounted, proposed, lateCommit >>
    /\ UNCHANGED << columnSizing, columnSizingInfo, persistSizingTimeout,
                    closureTimeout, closureSizing, timers, nextHandle, sinceMove,
                    burst, failure >>
    /\ UNCHANGED viewVars

\* A column is swapped for another one in place: same count, another id
RenameColumn(old, new) ==
    /\ old \in Elems(columns)
    /\ new \notin Elems(columns)
    /\ columns' = [i \in 1..Len(columns) |-> IF columns[i] = old THEN new ELSE columns[i]]
    /\ needsRender' = TRUE
    /\ lastReorder' = NoReorder
    /\ lastRender' = NoRender
    /\ UNCHANGED << columnWidth, renderedColumns, columnOrder >>
    /\ UNCHANGED << mounted, proposed, lateCommit >>
    /\ UNCHANGED << columnSizing, columnSizingInfo, persistSizingTimeout,
                    closureTimeout, closureSizing, timers, nextHandle, sinceMove,
                    burst, failure >>
    /\ UNCHANGED viewVars

\* A dragged header is dropped on a header: both are headers the last render
\* drew; the new order reorderColumn returns becomes the column order
Drop(draggedColumnId, targetColumnId) ==
    /\ mounted
    /\ ~needsRender
    /\ draggedColumnId \in Elems(renderedColumns)
    /\ targetColumnId \in Elems(renderedColumns)
    /\ columnOrder' = reorderColumn(draggedColumnId, targetColumnId, columnOrder)
    /\ lastReorder' = [called |-> TRUE, dragged |-> draggedColumnId,
                       target |-> targetColumnId, before |-> columnOrder,
                       after |-> columnOrder']
    /\ needsRender' = TRUE
    /\ lastRender' = NoRender
    /\ UNCHANGED << columns, columnWidth, renderedColumns >>
    /\ UNCHANGED << mounted, proposed, lateCommit >>
    /\ UNCHANGED << columnSizing, columnSizingInfo, persistSizingTimeout,
                    closureTimeout, closureSizing, timers, nextHandle, sinceMove,
                    burst, failure >>
    /\ UNCHANGED viewVars

NextOrder ==
    \/ \E id \in ColumnIds : AddColumn(id)
    \/ \E id \in ColumnIds : RemoveColumn(id)
    \/ \E old, new \in ColumnIds : RenameColumn(old, new)
    \/ \E d, t \in ColumnIds : Drop(d, t)
    \/ Render

SpecOrder == InitOrder /\ [][NextOrder]_vars

NextResize ==
    \/ \E c \in ColumnIds : StartResize(c)
    \/ \E delta \in Deltas : PointerMove(delta)
    \/ \E delta \in Deltas : PointerUp(delta)
    \/ Tick
    \/ \E t \in timers : TimerFires(t)
    \/ resetColumnSizing
    \/ Unmount
    \/ Render

SpecResize == InitResize /\ [][NextResize]_vars

-----------------------------------------------------------------------------
(* The filter box, column visibility, the pages and the new-row input *)

\* What no handler of the filter box, the pager and the new-row input touches
orderAndSizeUnchanged ==
    /\ UNCHANGED << columns, columnWidth, renderedColumns, columnOrder, lastReorder >>
    /\ UNCHANGED << mounted, lastRender, proposed, lateCommit >>
    /\ UNCHANGED << sortBy, templateRow, currentRowTemplate, lastSelect >>
    /\ UNCHANGED << columnSizing, columnSizingInfo, persistSizingTimeout,
                    closureTimeout, closureSizing, timers, nextHandle, sinceMove,
                    burst, failure >>

\* A keystroke in the filter box: setGlobalFilter(text)
SetGlobalFilter(text) ==
    /\ mounted
    /\ ~needsRender
    /\ text # globalFilter
    /\ globalFilter' = text
    /\ lastFilter' = [typed |-> TRUE, text |-> globalFilter]
    /\ needsRender' = TRUE
    /\ orderAndSizeUnchanged
    /\ UNCHANGED << rows, columnVisibility, pageIndex, inputNewRow, newRowRefValue,
                    lastInput >>

\* onColumnVisibilityChange: setColumnVisibility
ToggleVisibility(c) ==
    /\ mounted
    /\ ~needsRender
    /\ c \in Elems(columns)
    /\ columnVisibility' = [columnVisibility EXCEPT ![c] = ~columnVisibility[c]]
    /\ needsRender' = TRUE
    /\ orderAndSizeUnchanged
    /\ UNCHANGED << rows, globalFilter, lastFilter, pageIndex, inputNewRow,
                    newRowRefValue, lastInput >>

\* The sorting state after the header of column c was asked to toggle: the
\* column's entry goes none -> ascending -> descending -> none; it replaces the
\* sorting state, or with multi-sort only the column's own entry
toggleSorting(sorting, c, multi) ==
    LET Mine(entry) == entry.id = c
        Others(entry) == entry.id # c
        mine == SelectSeq(sorting, Mine)
    IN IF mine = << >>
       THEN (IF multi THEN sorting ELSE << >>) \o << [id |-> c, desc |-> FALSE] >>
       ELSE IF ~mine[1].desc
       THEN (IF multi
             THEN [k \in 1..Len(sorting) |->
                      IF sorting[k].id = c THEN [id |-> c, desc |-> TRUE]
                      ELSE sorting[k]]
             ELSE << [id |-> c, desc |-> TRUE] >>)
       ELSE (IF multi THEN SelectSeq(sorting, Others) ELSE << >>)

\* onSortingChange: sortActions.alterSorting
alterSorting(c, multi) ==
    /\ mounted
    /\ ~needsRender
    /\ c \in Elems(renderedColumns)
    /\ sortBy' = toggleSorting(sortBy, c, multi)
    /\ needsRender' = TRUE
    /\ UNCHANGED << columns, columnWidth, renderedColumns, columnOrder, lastReorder,
                    mounted, lastRender, proposed, lateCommit >>
    /\ UNCHANGED << columnSizing, columnSizingInfo, persistSizingTimeout,
                    closureTimeout, closureSizing, timers, nextHandle, sinceMove,
                    burst, failure >>
    /\ UNCHANGED << rows, globalFilter, lastFilter, columnVisibility, pageIndex,
                    inputNewRow, newRowRefValue, lastInput, templateRow,
                    currentRowTemplate, lastSelect >>

\* The values of templateOptions
TemplateValues == {<< "a" >>, << "b" >>}

\* What the select hands to onChange: an option, or null when it was cleared
NullOption == [isNull |-> TRUE, label |-> EmptyString, value |-> EmptyString]
SelectValues ==
    {NullOption} \cup {[isNull |-> FALSE, label |-> v, value |-> v] : v \in TemplateValues}

\* const settingsValue = !!newValue ? newValue.value : ""
settingsValue(newValue) == IF ~newValue.isNull THEN newValue.value ELSE EmptyString

\* A handler that writes the configuration and forgets the store
handleChangeRowTemplateConfigOnly(newValue) ==
    /\ mounted
    /\ ~needsRender
    /\ currentRowTemplate' = settingsValue(newValue)
    /\ needsRender' = TRUE
    /\ UNCHANGED << columns, columnWidth, renderedColumns, columnOrder, lastReorder,
                    mounted, lastRender, proposed, lateCommit >>
    /\ UNCHANGED << columnSizing, columnSizingInfo, persistSizingTimeout,
                    closureTimeout, closureSizing, timers, nextHandle, sinceMove,
                    burst, failure >>
    /\ UNCHANGED << rows, globalFilter, lastFilter, columnVisibility, pageIndex,
                    inputNewRow, newRowRefValue, lastInput, sortBy, templateRow >>
    /\ lastSelect' = [done |-> TRUE, cleared |-> newValue.isNull,
                      value |-> newValue.value, previous |-> templateRow,
                      rowsBefore |-> rows, rowsAfter |-> rows']

\* handleChangeRowTemplate(newValue): templateUpdate stores the value as the
\* selected template, alterConfig stores it as current_row_template
handleChangeRowTemplate(newValue) ==
    /\ mounted
    /\ ~needsRender
    /\ templateRow' = settingsValue(newValue)
    /\ currentRowTemplate' = settingsValue(newValue)
    /\ needsRender' = TRUE
    /\ UNCHANGED << columns, columnWidth, renderedColumns, columnOrder, lastReorder,
                    mounted, lastRender, proposed, lateCommit >>
    /\ UNCHANGED << columnSizing, columnSizingInfo, persistSizingTimeout,
                    closureTimeout, closureSizing, timers, nextHandle, sinceMove,
                    burst, failure >>
    /\ UNCHANGED << rows, globalFilter, lastFilter, columnVisibility, pageIndex,
                    inputNewRow, newRowRefValue, lastInput, sortBy >>
    /\ lastSelect' = [done |-> TRUE, cleared |-> newValue.isNull,
                      value |-> newValue.value, previous |-> templateRow,
                      rowsBefore |-> rows, rowsAfter |-> rows']

\* table.nextPage(), offered while getCanNextPage() holds
NextPage ==
    /\ mounted
    /\ ~needsRender
    /\ pageIndex < PageCount(Len(FilteredRows)) - 1
    /\ pageIndex' = pageIndex + 1
    /\ needsRender' = TRUE
    /\ orderAndSizeUnchanged
    /\ UNCHANGED << rows, globalFilter, lastFilter, columnVisibility, inputNewRow,
                    newRowRefValue, lastInput >>

\* table.previousPage(), offered while getCanPreviousPage() holds
PreviousPage ==
    /\ mounted
    /\ ~needsRender
    /\ pageIndex > 0
    /\ pageIndex' = pageIndex - 1
    /\ needsRender' = TRUE
    /\ orderAndSizeUnchanged
    /\ UNCHANGED << rows, globalFilter, lastFilter, columnVisibility, inputNewRow,
                    newRowRefValue, lastInput >>

\* A row leaves the row store (its note was deleted); autoResetPageIndex is
\* false, so the page index stays as it is
RemoveRow(i) ==
    /\ i \in 1..Len(rows)
    /\ rows' = SubSeq(rows, 1, i - 1) \o SubSeq(rows, i + 1, Len(rows))
    /\ needsRender' = TRUE
    /\ orderAndSizeUnchanged
    /\ UNCHANGED << globalFilter, lastFilter, columnVisibility, pageIndex,
                    inputNewRow, newRowRefValue, lastInput >>

\* onChange of the new-row input: setInputNewRow(e.target.value)
InputChange(text) ==
    /\ mounted
    /\ ~needsRender
    /\ text # newRowRefValue
    /\ inputNewRow' = text
    /\ newRowRefValue' = text
    /\ lastInput' = [NoInput EXCEPT !.event = "change", !.text = inputNewRow,
                                    !.rowsBefore = Len(rows), !.rowsAfter = Len(rows)]
    /\ needsRender' = TRUE
    /\ orderAndSizeUnchanged
    /\ UNCHANGED << rows, globalFilter, lastFilter, columnVisibility, pageIndex >>

\* A submission that keeps the text when no row was created
handleAddNewRowKeepOnNoOp(event, key) ==
    /\ Len(rows) < MaxRows
    /\ rows' = addRow(rows, inputNewRow)
    /\ inputNewRow' = IF rows' = rows THEN inputNewRow ELSE EmptyString
    /\ newRowRefValue' = IF rows' = rows THEN newRowRefValue ELSE EmptyString
    /\ lastInput' = [event |-> event, key |-> key, text |-> inputNewRow,
                     rowsBefore |-> Len(rows), rowsAfter |-> Len(rows'),
                     addRowCalled |-> TRUE]
    /\ needsRender' = TRUE

\* handleAddNewRow: addRow with the text of the input state, then the input
\* state and the DOM input are cleared
handleAddNewRow(event, key) ==
    /\ Len(rows) < MaxRows
    /\ rows' = addRow(rows, inputNewRow)
    /\ inputNewRow' = EmptyString
    /\ newRowRefValue' = EmptyString
    /\ lastInput' = [event |-> event, key |-> key, text |-> inputNewRow,
                     rowsBefore |-> Len(rows), rowsAfter |-> Len(rows'),
                     addRowCalled |-> TRUE]
    /\ needsRender' = TRUE

\* handleKeyDown: Enter submits; any other key is left to the input
handleKeyDown(key) ==
    IF key = "Enter"
    THEN handleAddNewRow("keydown", key)
    ELSE /\ lastInput' = [NoInput EXCEPT !.event = "keydown", !.key = key,
                                         !.text = inputNewRow,
                                         !.rowsBefore = Len(rows),
                                         !.rowsAfter = Len(rows)]
         /\ UNCHANGED << rows, inputNewRow, newRowRefValue, needsRender >>

\* onKeyDown of the new-row input
KeyDown(key) ==
    /\ mounted
    /\ ~needsRender
    /\ handleKeyDown(key)
    /\ orderAndSizeUnchanged
    /\ UNCHANGED << globalFilter, lastFilter, columnVisibility, pageIndex >>

\* onClick of the add-row cell
ClickAdd ==
    /\ mounted
    /\ ~needsRender
    /\ handleAddNewRow("click", "")
    /\ orderAndSizeUnchanged
    /\ UNCHANGED << globalFilter, lastFilter, columnVisibility, pageIndex >>

NextFilter ==
    \/ \E text \in FilterTexts : SetGlobalFilter(text)
    \/ \E c \in ColumnIds : ToggleVisibility(c)
    \/ Render

SpecFilter == InitFilter /\ [][NextFilter]_vars

NextSort ==
    \/ \E c \in ColumnIds : \E multi \in BOOLEAN : alterSorting(c, multi)
    \/ Render

SpecSort == InitSort /\ [][NextSort]_vars

NextTemplate ==
    \/ \E newValue \in SelectValues : handleChangeRowTemplate(newValue)
    \/ \E i \in 1..MaxInitRows : RemoveRow(i)
    \/ Render

SpecTemplate == InitTemplate /\ [][NextTemplate]_vars

NextRows ==
    \/ \E text \in InputTexts : InputChange(text)
    \/ \E key \in Keys : KeyDown(key)
    \/ ClickAdd
    \/ \E i \in 1..MaxRows : RemoveRow(i)
    \/ NextPage
    \/ PreviousPage
    \/ Render

SpecRows == InitRows /\ [][NextRows]_vars

-----------------------------------------------------------------------------
(* Properties of the column order *)

Count(s, x) == Cardinality({i \in 1..Len(s) : s[i] = x})

IsPermutation(s, t) ==
    /\ Len(s) = Len(t)
    /\ \A x \in Elems(s) \cup Elems(t) : Count(s, x) = Count(t, x)

Without(s, x) == SelectSeq(s, LAMBDA y : y # x)

\* The last step was a reorder whose ids both occur in the order it was given
ValidReorder ==
    /\ lastReorder.called
    /\ NoDup(lastReorder.before)
    /\ lastReorder.dragged \in Elems(lastReorder.before)
    /\ lastReorder.target \in Elems(lastReorder.before)

\* C2: a reorder whose dragged and target ids both occur in a duplicate-free
\* column order returns a permutation of that order: same length, the same
\* ids, no duplicate and no undefined entry.
C2_ReorderIsPermutation ==
    ValidReorder =>
        /\ IsPermutation(lastReorder.after, lastReorder.before)
        /\ NoDup(lastReorder.after)
        /\ Undefined \notin Elems(lastReorder.after)

C2_Witness ==
    /\ ValidReorder
    /\ Len(lastReorder.before) = 3
    /\ lastReorder.dragged # lastReorder.target
    /\ lastReorder.after # lastReorder.before

\* C3 as claimed: after a reorder of two distinct existing ids the dragged id
\* stands immediately before the target id, whichever side it came from, and
\* the other ids keep their relative order.
C3_DraggedBeforeTarget ==
    (ValidReorder /\ lastReorder.dragged # lastReorder.target) =>
        /\ IndexOf(lastReorder.after, lastReorder.dragged) + 1
              = IndexOf(lastReorder.after, lastReorder.target)
        /\ Without(lastReorder.after, lastReorder.dragged)
              = Without(lastReorder.before, lastReorder.dragged)

\* C3 as amended: the dragged id takes the index the target id had before the
\* call, which is immediately before the target when the dragged id came from
\* its right and immediately after the target when it came from its left; the
\* other ids keep their relative order.
C3_DraggedTakesTargetIndex ==
    (ValidReorder /\ lastReorder.dragged # lastReorder.target) =>
        LET d == lastReorder.dragged
            t == lastReorder.target
            before == lastReorder.before
            after == lastReorder.after
        IN /\ IndexOf(after, d) = IndexOf(before, t)
           /\ Without(after, d) = Without(before, d)
           /\ IndexOf(before, d) > IndexOf(before, t)
                 => IndexOf(after, d) + 1 = IndexOf(after, t)
           /\ IndexOf(before, d) < IndexOf(before, t)
                 => IndexOf(after, t) + 1 = IndexOf(after, d)

C3_Witness ==
    /\ ValidReorder
    /\ Len(lastReorder.before) = 3
    /\ IndexOf(lastReorder.before, lastReorder.dragged) = 0
    /\ IndexOf(lastReorder.before, lastReorder.target) = 1
    /\ IndexOf(lastReorder.after, lastReorder.dragged) = 1

\* C10: a reorder whose dragged or target id is not in the column order leaves
\* the column order as it was.
C10_InvalidReferenceNoOp ==
    (/\ lastReorder.called
     /\ \/ lastReorder.dragged \notin Elems(lastReorder.before)
        \/ lastReorder.target \notin Elems(lastReorder.before))
        => lastReorder.after = lastReorder.before

-----------------------------------------------------------------------------
(* Properties of the resize commit *)

\* C1: a burst of sizing-change events on one column, each less than the
\* debounce delay after the one before, then silence for the delay, commits
\* exactly once, with the width of the last event, and not before the delay has
\* passed since the last event.
C1_OneCommitPerBurst ==
    (burst.n >= 1 /\ ~burst.mixed) =>
        /\ ~burst.early
        /\ (sinceMove = Debounce /\ timers = {}) =>
              (burst.commits = 1 /\ burst.committed = burst.width)

\* C7: the committed width of every column lies within [minWidth, maxWidth],
\* also after the commit of a proposed width outside that range.
C7_CommittedWidthClamped ==
    \A c \in ColumnIds : columnWidth[c] >= MinWidth /\ columnWidth[c] <= MaxWidth

C7_Witness ==
    /\ burst.commits >= 1
    /\ burst.committed > MaxWidth
    /\ columnWidth[burst.col] = MaxWidth
    /\ timers = {}

-----------------------------------------------------------------------------
(* Properties of the derived rows *)

\* The cell's text holds the filter text at some offset, letter case aside
CellContains(cell, text) ==
    LET str == Stringify(cell)
    IN \E off \in 0..(Len(str) - Len(text)) :
          \A j \in 1..Len(text) : LowerChar(str[off + j]) = LowerChar(text[j])

\* C4: once the view is derived, a page index beyond the last page has been
\* brought back to a valid page, and the page shows a row whenever a row
\* survives.
C4_PageIndexClamped ==
    (~needsRender /\ Len(FilteredRows) > 0) =>
        /\ pageIndex < PageCount(Len(FilteredRows))
        /\ Len(PageRows) > 0

\* C5 as claimed: under a non-empty filter text the filtered rows are exactly
\* the rows with a visible column whose stringified cell contains the text,
\* case-insensitively.
C5_VisibleColumnsDecide ==
    globalFilter # EmptyString =>
        FilteredRows = SelectSeq(rows, LAMBDA row :
            \E c \in Elems(columns) :
                columnVisibility[c] /\ CellContains(row.fields[c], globalFilter))

\* C5 as amended: under a non-empty filter text the filtered rows are exactly
\* the rows with a column, visible or hidden, whose stringified cell contains
\* the text, case-insensitively.
C5_AllColumnsDecide ==
    globalFilter # EmptyString =>
        FilteredRows = SelectSeq(rows, LAMBDA row :
            \E c \in Elems(columns) : CellContains(row.fields[c], globalFilter))

C5_Witness ==
    /\ globalFilter # EmptyString
    /\ Len(FilteredRows) < Len(rows)
    /\ \E i \in 1..Len(FilteredRows) :
          /\ \E c \in Elems(columns) :
                ~columnVisibility[c] /\ CellContains(FilteredRows[i].fields[c], globalFilter)
          /\ \A c \in Elems(columns) :
                columnVisibility[c] => ~CellContains(FilteredRows[i].fields[c], globalFilter)

\* C6: with the empty filter text the filtered rows are the rows, and the hit
\* count is the row count.
C6_EmptyFilterIsIdentity ==
    globalFilter = EmptyString => (FilteredRows = rows /\ hits = Len(rows))

C6_Witness ==
    /\ globalFilter = EmptyString
    /\ lastFilter.typed
    /\ lastFilter.text # EmptyString
    /\ ~needsRender
    /\ Len(rows) = MaxInitRows
    /\ \E i \in 1..Len(rows) : \A c \in Elems(columns) : rows[i].fields[c].kind = "missing"
    /\ \E c \in Elems(columns) : ~columnVisibility[c]

-----------------------------------------------------------------------------
(* Properties of the new-row input *)

\* C8: a submission with an empty or blank text creates no row.
C8_BlankNameAddsNoRow ==
    (lastInput.addRowCalled /\ Blank(lastInput.text)) =>
        lastInput.rowsAfter = lastInput.rowsBefore

C8_Witness ==
    /\ lastInput.addRowCalled
    /\ lastInput.event = "keydown"
    /\ Blank(lastInput.text)
    /\ Len(lastInput.text) > 0
    /\ lastInput.rowsBefore > 0

\* C9: after a submission, whether it created a row or not, the input state
\* and the input's text are empty; a key other than Enter calls no addRow,
\* adds no row and leaves the input as it was.
C9_SubmissionClearsInput ==
    /\ lastInput.addRowCalled =>
          (inputNewRow = EmptyString /\ newRowRefValue = EmptyString)
    /\ (lastInput.event = "keydown" /\ lastInput.key # "Enter") =>
          /\ ~lastInput.addRowCalled
          /\ lastInput.rowsAfter = lastInput.rowsBefore
          /\ inputNewRow = lastInput.text
          /\ newRowRefValue = lastInput.text

C9_Witness ==
    /\ lastInput.addRowCalled
    /\ lastInput.event = "click"
    /\ Len(lastInput.text) > 0
    /\ lastInput.rowsAfter = lastInput.rowsBefore
    /\ inputNewRow = EmptyString


-----------------------------------------------------------------------------
(* Properties of the render-pass reconciliation *)

\* C11: a render pass that finds the cached order's length different from the
\* column count replaces the cached order by the registry's id sequence; the
\* pass that follows it settles with the cached order equal to that sequence,
\* every settled state has a cached order as long as the registry, and no
\* failure is raised.
C11_LengthDriftHeals ==
    /\ (lastRender.ran /\ lastRender.drift) => (columnOrder = columns /\ needsRender)
    /\ (lastRender.ran /\ lastRender.follows) =>
           /\ ~needsRender
           /\ Len(columnOrder) = Len(columns)
           /\ Elems(columnOrder) = Elems(columns)
           /\ columnOrder = columns
    /\ ~needsRender => Len(columnOrder) = Len(columns)
    /\ ~failure

\* A pass found the lengths different and the pass after it has settled
C11_Witness ==
    /\ lastRender.ran
    /\ lastRender.follows
    /\ ~needsRender
    /\ Len(columns) >= 2
    /\ columnOrder = columns

\* C19: the reconciliation compares lengths only: a render pass that finds the
\* lengths equal keeps the cached order as it was, so that after the registry
\* changed to other ids of the same count the settled cached order still holds
\* the stale ids and is no permutation of the registry's ids.
C19_SameCountNotResynchronised ==
    (lastRender.ran /\ ~lastRender.drift) =>
        /\ columnOrder = lastRender.before
        /\ ~needsRender
        /\ Elems(lastRender.before) # Elems(columns) =>
               /\ ~IsPermutation(columnOrder, columns)
               /\ \E id \in Elems(columnOrder) : id \notin Elems(columns)

\* A settled render pass left an order naming a column the registry lost
C19_Witness ==
    /\ lastRender.ran
    /\ ~lastRender.drift
    /\ ~needsRender
    /\ Len(columnOrder) = Len(columns)
    /\ Elems(columnOrder) # Elems(columns)

\* C20: the render-pass reconciliation terminates: the render pass that follows
\* a pass which issued an order update finds the lengths equal and issues no
\* further update, whatever the registry holds.
C20_ReconciliationTerminates ==
    /\ (lastRender.ran /\ lastRender.follows) => (~lastRender.drift /\ ~needsRender)
    /\ (lastRender.ran /\ lastRender.drift) => Len(columnOrder) = Len(columns)

\* The pass after a reconciling pass ran, for a registry that had grown and
\* for one that had shrunk
C20_Witness ==
    /\ lastRender.ran
    /\ lastRender.follows
    /\ ~lastRender.drift
    /\ ~needsRender
    /\ columnOrder = lastRender.before

-----------------------------------------------------------------------------
(* Properties of the sort pass *)

\* The position of row index i in an order of the row indices
PositionOf(order, i) == CHOOSE k \in 1..Len(order) : order[k] = i

\* Two rows have equal keys under every entry of the sorting state
EqualKeys(rowA, rowB, sorting) ==
    \A k \in 1..Len(sorting) :
        /\ rowA.fields[sorting[k].id].kind = "missing"
               <=> rowB.fields[sorting[k].id].kind = "missing"
        /\ toLowerCase(Stringify(rowA.fields[sorting[k].id]))
               = toLowerCase(Stringify(rowB.fields[sorting[k].id]))

\* C12: the sort pass is stable: it hands over every row once, rows whose keys
\* are equal under all sort keys keep the relative order of the input, and
\* without a sort key the input order is handed over as it is.
C12_SortIsStable ==
    LET input == FilteredRows
        order == SortedPositions(input, availableSorting(sortBy), Len(input))
    IN /\ sortBy = << >> => SortedRows = input
       /\ Len(SortedRows) = Len(input)
       /\ sortBy # << >> =>
              /\ \A i \in 1..Len(input) : \E k \in 1..Len(input) : order[k] = i
              /\ \A k \in 1..Len(input) : SortedRows[k] = input[order[k]]
              /\ \A i, j \in 1..Len(input) :
                     (i < j /\ EqualKeys(input[i], input[j], sortBy))
                         => PositionOf(order, i) < PositionOf(order, j)

\* A sort on two keys moved a row, and two different rows tie under both
C12_Witness ==
    /\ Len(sortBy) = 2
    /\ ~needsRender
    /\ SortedRows # FilteredRows
    /\ \E i, j \in 1..Len(rows) :
           /\ i < j
           /\ rows[i] # rows[j]
           /\ EqualKeys(rows[i], rows[j], sortBy)

-----------------------------------------------------------------------------
(* Properties of the commit timers *)

\* The live commit timers of a column
TimersOf(c) == {t \in timers : t.col = c}

\* C13: in every reachable state at most one resize-commit timer is live for
\* each column, also after several sizing-change events were handled before
\* the component rendered again.
C13_OneTimerPerColumn ==
    \A c \in ColumnIds : Cardinality(TimersOf(c)) <= 1

\* C14: a pending commit is cancelled only by a later resize event on the same
\* column: while the last width proposed for a column has not been committed,
\* a live timer carries it, whatever was resized since, so that the commit of
\* every resized column is still to come.
C14_OnlySameColumnCancels ==
    \A c \in ColumnIds :
        proposed[c] # NoWidth =>
            \E t \in TimersOf(c) : t.width = proposed[c]

\* C15: a commit that is pending when the view is closed is dropped:
\* alterColumnSize is never called after the session ended.
C15_NoCommitAfterSessionEnd == ~lateCommit

\* C17: a sizing change handled while no column is being resized raises no
\* failure.
C17_IdleSizingChangeIsHarmless == ~failure

-----------------------------------------------------------------------------
(* Frame of the pointer-move handler *)

\* The step is a sizing-change event of a pointer-move: a timer was armed and
\* the resize goes on
IsPointerMoveStep ==
    /\ nextHandle' # nextHandle
    /\ columnSizingInfo.isResizingColumn # NotResizing
    /\ columnSizingInfo'.isResizingColumn # NotResizing

\* C16: a pointer-move during a resize sets the sizing entry of the column
\* being resized to its start width plus the cumulative offset and leaves
\* alone the committed width of every column, the sizing entries of the other
\* columns, the column order, the rows, the sort spec and the filter text; a
\* committed width changes only in the step in which a due timer fires.
C16_PointerMoveFrame ==
    [][ /\ IsPointerMoveStep =>
              LET col == columnSizingInfo.isResizingColumn
                  startWidth == columnSizingInfo.columnSizingStart[1][2]
                  cumulativeDelta == columnSizingInfo'.deltaOffset
              IN /\ columnSizingInfo.columnSizingStart[1][1] = col
                 /\ columnSizing'[col] = startWidth + cumulativeDelta
                 /\ \A c \in ColumnIds \ {col} : columnSizing'[c] = columnSizing[c]
                 /\ UNCHANGED << columnWidth, columns, columnOrder, rows, sortBy,
                                 globalFilter >>
        /\ columnWidth' # columnWidth =>
              \E t \in timers : t.remaining = 0 /\ timers' = timers \ {t}
      ]_vars

\* A pointer-move was just handled for one column while another column holds a
\* resized width and a commit has already changed a committed width
C16_Witness ==
    /\ columnSizingInfo.isResizingColumn # NotResizing
    /\ sinceMove = 0
    /\ burst.n >= 1
    /\ burst.col = columnSizingInfo.isResizingColumn
    /\ columnSizing[burst.col] = burst.width
    /\ columnSizing[burst.col] # InitialWidth
    /\ \E c \in Elems(columns) \ {burst.col} : columnSizing[c] # InitialWidth
    /\ \E c \in Elems(columns) : columnWidth[c] # InitialWidth

-----------------------------------------------------------------------------
(* Properties of the template select *)

\* C18: after a template selection the selected template of the row-template
\* store and current_row_template of the configuration hold the same value:
\* the value of the option chosen, or the empty string when the selection was
\* cleared; the selection left the rows as they were.
C18_TemplateAndConfigAgree ==
    lastSelect.done =>
        /\ templateRow = currentRowTemplate
        /\ templateRow = (IF lastSelect.cleared THEN EmptyString ELSE lastSelect.value)
        /\ lastSelect.rowsAfter = lastSelect.rowsBefore

\* A selected template was cleared while the table held rows
C18_Witness ==
    /\ lastSelect.done
    /\ lastSelect.cleared
    /\ lastSelect.previous \in TemplateValues
    /\ lastSelect.rowsBefore # << >>
    /\ templateRow = EmptyString
    /\ currentRowTemplate = EmptyString

====
